---- MODULE Spec2Model ----
(***************************************************************************)
(* PlayerGold SDK for Unreal Engine (UPlayerGoldSDK): the authenticated    *)
(* HTTP client facade of src/src/api/sdks/unreal/PlayerGoldSDK.cpp and its *)
(* header.  The subsystem holds ApiUrl, ApiKey, AuthToken and              *)
(* TokenExpirationTime; every public call builds requests with             *)
(* CreateRequest and hands them to the engine's HTTP module, which later   *)
(* completes each request once by calling the delegate bound to it.        *)
(*                                                                         *)
(* The HTTP module and the clock are the environment: a request that was   *)
(* processed stays pending until the environment completes it with some    *)
(* (bWasSuccessful, Response) pair, and FPlatformTime::Seconds() is the    *)
(* variable now.  The completion flag says that a response was received;   *)
(* the code never reads the response's status code, so the flag and the    *)
(* status are independent inputs of the handlers.                          *)
(***************************************************************************)
EXTENDS Integers, Sequences, FiniteSets, TLC

VARIABLES
    ApiUrl,               \* FString ApiUrl
    ApiKey,               \* FString ApiKey
    AuthToken,            \* FString AuthToken ("" = none)
    TokenExpirationTime,  \* double TokenExpirationTime, in seconds
    now,                  \* FPlatformTime::Seconds()
    issued,               \* every request handed to ProcessRequest, in order
    pending,              \* indices of issued requests not yet completed
    balanceReceived,      \* executions of FOnBalanceReceived delegates
    transactionCreated,   \* executions of FOnTransactionCreated delegates
    errors,               \* executions of FOnError delegates
    lastOp                \* the operation or handler that ran last

vars == <<ApiUrl, ApiKey, AuthToken, TokenExpirationTime, now, issued,
          pending, balanceReceived, transactionCreated, errors, lastOp>>

session == <<AuthToken, TokenExpirationTime>>
config == <<ApiUrl, ApiKey>>
callbacks == <<balanceReceived, transactionCreated, errors>>

---------------------------------------------------------------------------
(* Bounds of the model.                                                    *)

MaxRequests == 3      \* requests issued in one behaviour
MaxNow == 600         \* the clock stops advancing here

ClockSteps == {300}  \* seconds that may pass between two steps

(* Inputs of the public calls.                                             *)
ApiKeys == {"key1"}
ApiUrls == {"http://localhost:5000/api/v1"}
Addresses == {"addr1"}
TransactionHashes == {"0xabc"}
Amounts == {10, 25}
PrivateKeys == {"priv1"}
Bindings == {TRUE}          \* whether a delegate passed to a call is bound

---------------------------------------------------------------------------
(* Program constants.                                                      *)

RenewalWindow == 300                       \* EnsureAuthenticated: 300.0
Fee == <<1, 100>>                          \* CreateTransaction: 0.01
ContentTypeJson == "application/json"
ParseBalanceError == "Failed to parse balance response"
ParseTransactionError == "Failed to parse transaction response"
RequestFailed == "Request failed"

---------------------------------------------------------------------------
(* Responses the HTTP module can hand to a completion delegate.            *)

AuthBodyA == "{\"token\":\"tokA\",\"expires_in\":600}"
AuthBodyB == "{\"token\":\"tokB\",\"expires_in\":200}"
BalanceBody == "{\"balance\":42}"
TransactionBody == "{\"transaction_hash\":\"0xabc\"}"
UnexpectedBody == "{\"unexpected\":\"shape\"}"
TextBody == "insufficient permissions"

\* FHttpResponsePtr that is not valid (no response object)
NullResponse == [valid |-> FALSE, code |-> 0, content |-> ""]

\* bodies the server sends with a 2xx status, by the delegate bound to the
\* request: the endpoint's own success body, a JSON object of another
\* shape, or plain text
Contents(handler) ==
    {UnexpectedBody, TextBody} \cup
    (CASE handler = "OnAuthenticationResponse" -> {AuthBodyA, AuthBodyB}
       [] handler = "OnBalanceResponse" -> {BalanceBody}
       [] handler = "OnTransactionResponse" -> {TransactionBody}
       [] OTHER -> {})

\* bodies the server sends with an error status
ErrorContents == {UnexpectedBody, TextBody}

\* responses that were received: a 2xx status with one of the bodies above,
\* or an error status with an error body
Responses(handler) ==
    [valid : {TRUE}, code : {200}, content : Contents(handler)] \cup
    [valid : {TRUE}, code : {401}, content : ErrorContents]

\* the (bWasSuccessful, Response) pairs a completion delegate is called
\* with: a received response, no response at all, or a connection that
\* failed after a response object was created
Completions(handler) ==
    ({TRUE} \X (Responses(handler) \cup {NullResponse})) \cup
    {<<FALSE, NullResponse>>,
     <<FALSE, [valid |-> TRUE, code |-> 401, content |-> TextBody]>>}

\* a 2xx status; the handlers never read the status
SuccessCode(code) == code \in 200..299

---------------------------------------------------------------------------
(* JSON: FJsonSerializer::Deserialize into an FJsonObject, and the field   *)
(* getters of FJsonObject.  A field that is absent reads as the default    *)
(* value of its type (empty string, 0).                                    *)

Deserialize(content) ==
    CASE content = AuthBodyA ->
           [ok |-> TRUE, obj |-> [token |-> "tokA", expires_in |-> 600]]
      [] content = AuthBodyB ->
           [ok |-> TRUE, obj |-> [token |-> "tokB", expires_in |-> 200]]
      [] content = BalanceBody ->
           [ok |-> TRUE, obj |-> [balance |-> 42]]
      [] content = TransactionBody ->
           [ok |-> TRUE, obj |-> [transaction_hash |-> "0xabc"]]
      [] content = UnexpectedBody ->
           [ok |-> TRUE, obj |-> [unexpected |-> "shape"]]
      [] OTHER -> [ok |-> FALSE, obj |-> <<>>]

HasField(obj, field) == field \in DOMAIN obj
GetStringField(obj, field) == IF HasField(obj, field) THEN obj[field] ELSE ""
GetNumberField(obj, field) == IF HasField(obj, field) THEN obj[field] ELSE 0
GetIntegerField(obj, field) == IF HasField(obj, field) THEN obj[field] ELSE 0

\* double -> float for a non-negative integer value: exact up to 2^24,
\* rounded to the nearest even multiple of 2 in [2^24, 2^25)
ToFloat(x) ==
    IF x <= 2^24 THEN x
    ELSE IF x % 2 = 0 THEN x
    ELSE IF ((x - 1) \div 2) % 2 = 0 THEN x - 1 ELSE x + 1

---------------------------------------------------------------------------
(* Request construction.                                                   *)

AuthorizationHeader(token) == <<"Authorization", "Bearer " \o token>>

\* variant: sets the Authorization header whatever the token
CreateRequest_AlwaysAuthorization(url, token, Endpoint, Verb) ==
    [url |-> url \o Endpoint,
     verb |-> Verb,
     headers |-> {<<"Content-Type", ContentTypeJson>>,
                  AuthorizationHeader(token)},
     content |-> <<>>,
     handler |-> "",
     OnSuccess |-> FALSE,
     OnError |-> FALSE]

CreateRequest(url, token, Endpoint, Verb) ==
    [url |-> url \o Endpoint,
     verb |-> Verb,
     headers |-> {<<"Content-Type", ContentTypeJson>>} \cup
                 (IF token # "" THEN {AuthorizationHeader(token)} ELSE {}),
     content |-> <<>>,
     handler |-> "",
     OnSuccess |-> FALSE,
     OnError |-> FALSE]

\* Authenticate(): the request it hands to ProcessRequest
Authenticate(url, key, token) ==
    [CreateRequest(url, token, "/auth/token", "POST") EXCEPT
        !.content = [api_key |-> key],
        !.handler = "OnAuthenticationResponse"]

\* variant: renews only once the renewal window has been passed
NeedsAuthentication_AfterWindow(token, expiry, time) ==
    token = "" \/ time > expiry - RenewalWindow

\* variant: an empty token never triggers the authentication
NeedsAuthentication_TokenHeld(token, expiry, time) ==
    token # "" /\ time >= expiry - RenewalWindow

NeedsAuthentication(token, expiry, time) ==
    token = "" \/ time >= expiry - RenewalWindow

\* variant: skips the authentication when one is already in flight
EnsureAuthenticated_Deduplicated ==
    IF /\ NeedsAuthentication(AuthToken, TokenExpirationTime, now)
       /\ \A id \in pending : issued[id].handler # "OnAuthenticationResponse"
    THEN <<Authenticate(ApiUrl, ApiKey, AuthToken)>>
    ELSE <<>>

\* EnsureAuthenticated(): the requests it issues (none or one)
EnsureAuthenticated ==
    IF NeedsAuthentication(AuthToken, TokenExpirationTime, now)
    THEN <<Authenticate(ApiUrl, ApiKey, AuthToken)>>
    ELSE <<>>

\* IHttpRequest::ProcessRequest for the requests of one call, in order
ProcessRequest(reqs) ==
    /\ Len(issued) + Len(reqs) <= MaxRequests
    /\ issued' = issued \o reqs
    /\ pending' = pending \cup (Len(issued) + 1 .. Len(issued) + Len(reqs))

\* variant: also requires the token not to be expired
IsAuthenticated_NotExpired == AuthToken # "" /\ now < TokenExpirationTime

IsAuthenticated == AuthToken # ""

---------------------------------------------------------------------------
Init ==
    /\ ApiUrl = ""
    /\ ApiKey = ""
    /\ AuthToken = ""
    /\ TokenExpirationTime = 0
    /\ now = 0
    /\ issued = <<>>
    /\ pending = {}
    /\ balanceReceived = <<>>
    /\ transactionCreated = <<>>
    /\ errors = <<>>
    /\ lastOp = "Initialize"

\* variant: authenticates only when EnsureAuthenticated would
InitializeSDK_IfNeeded(InApiKey, InApiUrl) ==
    /\ ApiKey' = InApiKey
    /\ ApiUrl' = InApiUrl
    /\ ProcessRequest(IF NeedsAuthentication(AuthToken, TokenExpirationTime, now)
                      THEN <<Authenticate(InApiUrl, InApiKey, AuthToken)>>
                      ELSE <<>>)
    /\ lastOp' = "InitializeSDK"
    /\ UNCHANGED <<session, now, callbacks>>

InitializeSDK(InApiKey, InApiUrl) ==
    /\ ApiKey' = InApiKey
    /\ ApiUrl' = InApiUrl
    /\ ProcessRequest(<<Authenticate(InApiUrl, InApiKey, AuthToken)>>)
    /\ lastOp' = "InitializeSDK"
    /\ UNCHANGED <<session, now, callbacks>>

\* variant: sends the balance request before the authentication request
GetBalance_RequestFirst(Address, OnSuccess, OnError) ==
    /\ ProcessRequest(
         <<[CreateRequest(ApiUrl, AuthToken, "/balance/" \o Address, "GET")
              EXCEPT !.handler = "OnBalanceResponse",
                     !.OnSuccess = OnSuccess,
                     !.OnError = OnError]>> \o EnsureAuthenticated)
    /\ lastOp' = "GetBalance"
    /\ UNCHANGED <<config, session, now, callbacks>>

GetBalance(Address, OnSuccess, OnError) ==
    /\ ProcessRequest(EnsureAuthenticated \o
         <<[CreateRequest(ApiUrl, AuthToken, "/balance/" \o Address, "GET")
              EXCEPT !.handler = "OnBalanceResponse",
                     !.OnSuccess = OnSuccess,
                     !.OnError = OnError]>>)
    /\ lastOp' = "GetBalance"
    /\ UNCHANGED <<config, session, now, callbacks>>

\* variant: the fee is a share of the amount (a thousandth)
CreateTransaction_FeeFromAmount(FromAddress, ToAddress, Amount, PrivateKey, OnSuccess, OnError) ==
    /\ ProcessRequest(EnsureAuthenticated \o
         <<[CreateRequest(ApiUrl, AuthToken, "/transaction", "POST")
              EXCEPT !.content = [from_address |-> FromAddress,
                                  to_address |-> ToAddress,
                                  amount |-> Amount,
                                  private_key |-> PrivateKey,
                                  fee |-> <<Amount, 1000>>],
                     !.handler = "OnTransactionResponse",
                     !.OnSuccess = OnSuccess,
                     !.OnError = OnError]>>)
    /\ lastOp' = "CreateTransaction"
    /\ UNCHANGED <<config, session, now, callbacks>>

CreateTransaction(FromAddress, ToAddress, Amount, PrivateKey, OnSuccess, OnError) ==
    /\ ProcessRequest(EnsureAuthenticated \o
         <<[CreateRequest(ApiUrl, AuthToken, "/transaction", "POST")
              EXCEPT !.content = [from_address |-> FromAddress,
                                  to_address |-> ToAddress,
                                  amount |-> Amount,
                                  private_key |-> PrivateKey,
                                  fee |-> Fee],
                     !.handler = "OnTransactionResponse",
                     !.OnSuccess = OnSuccess,
                     !.OnError = OnError]>>)
    /\ lastOp' = "CreateTransaction"
    /\ UNCHANGED <<config, session, now, callbacks>>

\* variant: the response is routed to OnTransactionResponse
GetTransaction_Consumed(TransactionHash) ==
    /\ ProcessRequest(EnsureAuthenticated \o
         <<[CreateRequest(ApiUrl, AuthToken,
                          "/transaction/" \o TransactionHash, "GET")
              EXCEPT !.handler = "OnTransactionResponse",
                     !.OnSuccess = TRUE,
                     !.OnError = TRUE]>>)
    /\ lastOp' = "GetTransaction"
    /\ UNCHANGED <<config, session, now, callbacks>>

GetTransaction(TransactionHash) ==
    /\ ProcessRequest(EnsureAuthenticated \o
         <<CreateRequest(ApiUrl, AuthToken,
                         "/transaction/" \o TransactionHash, "GET")>>)
    /\ lastOp' = "GetTransaction"
    /\ UNCHANGED <<config, session, now, callbacks>>

\* variant: runs EnsureAuthenticated like the other calls
GetNetworkStatus_Authenticated ==
    /\ ProcessRequest(EnsureAuthenticated \o
         <<CreateRequest(ApiUrl, AuthToken, "/network/status", "GET")>>)
    /\ lastOp' = "GetNetworkStatus"
    /\ UNCHANGED <<config, session, now, callbacks>>

GetNetworkStatus ==
    /\ ProcessRequest(<<CreateRequest(ApiUrl, AuthToken,
                                      "/network/status", "GET")>>)
    /\ lastOp' = "GetNetworkStatus"
    /\ UNCHANGED <<config, session, now, callbacks>>

---------------------------------------------------------------------------
(* Completion delegates.  id is the index of the completed request.        *)

\* variant: the expiry is the lifetime alone, the clock is not added
AuthenticationResult_NoClock(token, expiry, time, bWasSuccessful, Response) ==
    IF bWasSuccessful /\ Response.valid
    THEN LET parsed == Deserialize(Response.content) IN
         IF parsed.ok
         THEN <<GetStringField(parsed.obj, "token"),
                GetIntegerField(parsed.obj, "expires_in")>>
         ELSE <<token, expiry>>
    ELSE <<token, expiry>>

\* the session OnAuthenticationResponse leaves behind
AuthenticationResult(token, expiry, time, bWasSuccessful, Response) ==
    IF bWasSuccessful /\ Response.valid
    THEN LET parsed == Deserialize(Response.content) IN
         IF parsed.ok
         THEN <<GetStringField(parsed.obj, "token"),
                time + GetIntegerField(parsed.obj, "expires_in")>>
         ELSE <<token, expiry>>
    ELSE <<token, expiry>>

OnAuthenticationResponse(id, bWasSuccessful, Response) ==
    /\ id \in pending
    /\ issued[id].handler = "OnAuthenticationResponse"
    /\ pending' = pending \ {id}
    /\ AuthToken' = AuthenticationResult(AuthToken, TokenExpirationTime, now,
                                         bWasSuccessful, Response)[1]
    /\ TokenExpirationTime' =
         AuthenticationResult(AuthToken, TokenExpirationTime, now,
                              bWasSuccessful, Response)[2]
    /\ lastOp' = "OnAuthenticationResponse"
    /\ UNCHANGED <<config, now, issued, callbacks>>

\* which delegate OnBalanceResponse executes, and with what argument
BalanceResult(bWasSuccessful, Response) ==
    IF bWasSuccessful /\ Response.valid
    THEN LET parsed == Deserialize(Response.content) IN
         IF parsed.ok
         THEN [success |-> TRUE,
               Balance |-> ToFloat(GetNumberField(parsed.obj, "balance")),
               ErrorMessage |-> ""]
         ELSE [success |-> FALSE, Balance |-> 0,
               ErrorMessage |-> ParseBalanceError]
    ELSE [success |-> FALSE, Balance |-> 0,
          ErrorMessage |-> IF Response.valid THEN Response.content
                           ELSE RequestFailed]

\* variant: a failure is reported to the error delegate twice
ExecuteBalanceDelegates_ReportTwice(id, result) ==
    /\ balanceReceived' =
         IF result.success /\ issued[id].OnSuccess
         THEN Append(balanceReceived, [id |-> id, Balance |-> result.Balance])
         ELSE balanceReceived
    /\ errors' =
         IF ~result.success /\ issued[id].OnError
         THEN errors \o
              <<[id |-> id, ErrorMessage |-> result.ErrorMessage],
                [id |-> id, ErrorMessage |-> result.ErrorMessage]>>
         ELSE errors

\* ExecuteIfBound on the two delegates bound with the request
ExecuteBalanceDelegates(id, result) ==
    /\ balanceReceived' =
         IF result.success /\ issued[id].OnSuccess
         THEN Append(balanceReceived, [id |-> id, Balance |-> result.Balance])
         ELSE balanceReceived
    /\ errors' =
         IF ~result.success /\ issued[id].OnError
         THEN Append(errors, [id |-> id, ErrorMessage |-> result.ErrorMessage])
         ELSE errors

\* variant: a failed balance request drops the token
OnBalanceResponse_ClearsToken(id, bWasSuccessful, Response) ==
    /\ id \in pending
    /\ issued[id].handler = "OnBalanceResponse"
    /\ pending' = pending \ {id}
    /\ ExecuteBalanceDelegates(id, BalanceResult(bWasSuccessful, Response))
    /\ lastOp' = "OnBalanceResponse"
    /\ IF BalanceResult(bWasSuccessful, Response).success
       THEN UNCHANGED session
       ELSE AuthToken' = "" /\ TokenExpirationTime' = 0
    /\ UNCHANGED <<config, now, issued, transactionCreated>>

OnBalanceResponse(id, bWasSuccessful, Response) ==
    /\ id \in pending
    /\ issued[id].handler = "OnBalanceResponse"
    /\ pending' = pending \ {id}
    /\ ExecuteBalanceDelegates(id, BalanceResult(bWasSuccessful, Response))
    /\ lastOp' = "OnBalanceResponse"
    /\ UNCHANGED <<config, session, now, issued, transactionCreated>>

\* which delegate OnTransactionResponse executes, and with what argument
TransactionResult(bWasSuccessful, Response) ==
    IF bWasSuccessful /\ Response.valid
    THEN LET parsed == Deserialize(Response.content) IN
         IF parsed.ok
         THEN [success |-> TRUE,
               TransactionHash |->
                   GetStringField(parsed.obj, "transaction_hash"),
               ErrorMessage |-> ""]
         ELSE [success |-> FALSE, TransactionHash |-> "",
               ErrorMessage |-> ParseTransactionError]
    ELSE [success |-> FALSE, TransactionHash |-> "",
          ErrorMessage |-> IF Response.valid THEN Response.content
                           ELSE RequestFailed]

ExecuteTransactionDelegates(id, result) ==
    /\ transactionCreated' =
         IF result.success /\ issued[id].OnSuccess
         THEN Append(transactionCreated,
                     [id |-> id, TransactionHash |-> result.TransactionHash])
         ELSE transactionCreated
    /\ errors' =
         IF ~result.success /\ issued[id].OnError
         THEN Append(errors, [id |-> id, ErrorMessage |-> result.ErrorMessage])
         ELSE errors

OnTransactionResponse(id, bWasSuccessful, Response) ==
    /\ id \in pending
    /\ issued[id].handler = "OnTransactionResponse"
    /\ pending' = pending \ {id}
    /\ ExecuteTransactionDelegates(id,
                                   TransactionResult(bWasSuccessful, Response))
    /\ lastOp' = "OnTransactionResponse"
    /\ UNCHANGED <<config, session, now, issued, balanceReceived>>

\* completion of a request that has no delegate bound (GetTransaction,
\* GetNetworkStatus): the response is dropped
UnboundCompletion(id) ==
    /\ id \in pending
    /\ issued[id].handler = ""
    /\ pending' = pending \ {id}
    /\ lastOp' = "UnboundCompletion"
    /\ UNCHANGED <<config, session, now, issued, callbacks>>

\* the clock advances
Tick(d) ==
    /\ now + d <= MaxNow
    /\ now' = now + d
    /\ lastOp' = "Tick"
    /\ UNCHANGED <<config, session, issued, pending, callbacks>>

---------------------------------------------------------------------------
Next ==
    \/ \E k \in ApiKeys, u \in ApiUrls : InitializeSDK(k, u)
    \/ \E a \in Addresses, s \in Bindings, e \in Bindings : GetBalance(a, s, e)
    \/ \E f \in Addresses, t \in Addresses, m \in Amounts, p \in PrivateKeys,
          s \in Bindings, e \in Bindings : CreateTransaction(f, t, m, p, s, e)
    \/ \E h \in TransactionHashes : GetTransaction(h)
    \/ GetNetworkStatus
    \/ \E id \in pending :
          \E c \in Completions(issued[id].handler) : OnAuthenticationResponse(id, c[1], c[2])
    \/ \E id \in pending :
          \E c \in Completions(issued[id].handler) : OnBalanceResponse(id, c[1], c[2])
    \/ \E id \in pending :
          \E c \in Completions(issued[id].handler) : OnTransactionResponse(id, c[1], c[2])
    \/ \E id \in pending : UnboundCompletion(id)
    \/ \E d \in ClockSteps : Tick(d)

Spec == Init /\ [][Next]_vars

TypeOK ==
    /\ AuthToken \in {"", "tokA", "tokB"}
    /\ TokenExpirationTime \in Nat
    /\ now \in 0..MaxNow
    /\ Len(issued) <= MaxRequests
    /\ pending \subseteq 1..Len(issued)

---------------------------------------------------------------------------
(* Vocabulary of the properties.                                           *)

AuthHandler == "OnAuthenticationResponse"
AuthenticatedOps == {"GetBalance", "CreateTransaction", "GetTransaction"}
DomainOps == AuthenticatedOps \cup {"GetNetworkStatus"}
Handlers == {"OnAuthenticationResponse", "OnBalanceResponse",
             "OnTransactionResponse", "UnboundCompletion"}

\* indices of the requests issued by the current step
NewRequests == (Len(issued) + 1) .. Len(issued')

\* a response received with a 2xx status and the given body
Ok(body) == [valid |-> TRUE, code |-> 200, content |-> body]

\* the completion is a failure: no connection, no response, or a status
\* that is not 2xx
Failed(bWasSuccessful, Response) ==
    ~bWasSuccessful \/ ~Response.valid \/ ~SuccessCode(Response.code)

AuthorizationValues(req) ==
    {h[2] : h \in {g \in req.headers : g[1] = "Authorization"}}

---------------------------------------------------------------------------
(* C1: a request other than the authentication request is issued only      *)
(* when the session holds a non-empty token that is not expired at that    *)
(* moment.                                                                 *)
C1_RequestsOnlyWithValidToken ==
    [][\A i \in NewRequests :
          issued'[i].handler # AuthHandler =>
              AuthToken # "" /\ now < TokenExpirationTime]_vars

(* C2: EnsureAuthenticated, at the start of GetBalance, CreateTransaction  *)
(* and GetTransaction, issues one authentication request if the token is   *)
(* empty or now >= expiry - 300, and none otherwise.                       *)
C2_EnsureAuthenticatedIff ==
    [][lastOp' \in AuthenticatedOps =>
          Cardinality({i \in NewRequests : issued'[i].handler = AuthHandler})
            = IF AuthToken = "" \/ now >= TokenExpirationTime - 300
              THEN 1 ELSE 0]_vars

\* GetBalance called exactly at expiry - 300 issued an authentication request
C2_Witness ==
    /\ lastOp = "GetBalance"
    /\ AuthToken # ""
    /\ now = TokenExpirationTime - 300
    /\ Len(issued) = 3
    /\ issued[2].handler = AuthHandler
    /\ issued[3].handler = "OnBalanceResponse"

(* C3: processing a successful authentication response that carries token  *)
(* and expires_in sets the token to the response's token and the expiry to *)
(* the clock at processing time plus expires_in.                           *)
C3_AuthenticationSetsSession ==
    [][\A id \in pending \ pending' :
          /\ OnAuthenticationResponse(id, TRUE, Ok(AuthBodyA)) =>
                AuthToken' = "tokA" /\ TokenExpirationTime' = now + 600
          /\ OnAuthenticationResponse(id, TRUE, Ok(AuthBodyB)) =>
                AuthToken' = "tokB" /\ TokenExpirationTime' = now + 200]_vars

\* a response processed after the clock advanced: the expiry counts from
\* the processing time
C3_Witness ==
    /\ lastOp = "OnAuthenticationResponse"
    /\ now = 300
    /\ AuthToken = "tokA"
    /\ TokenExpirationTime = 900

(* C4: when an authentication request fails (transport error or a          *)
(* non-success status), processing its completion leaves token and expiry  *)
(* as they were and executes no delegate.                                  *)
C4_FailedAuthenticationLeavesSession ==
    [][\A id \in pending \ pending' :
          \A c \in Completions(AuthHandler) :
              OnAuthenticationResponse(id, c[1], c[2]) /\ Failed(c[1], c[2])
                  => UNCHANGED <<session, callbacks>>]_vars

(* C5: IsAuthenticated is true exactly when the token is non-empty: false  *)
(* from Initialize until a successful authentication response has been     *)
(* processed, true right after one is processed, and unchanged by the      *)
(* clock passing the expiry.                                               *)
C5_IsAuthenticated ==
    /\ ~IsAuthenticated
    /\ [][/\ IsAuthenticated' = (AuthToken' # "")
          /\ (~IsAuthenticated /\ IsAuthenticated') =>
                \E id \in pending \ pending', body \in {AuthBodyA, AuthBodyB} :
                    OnAuthenticationResponse(id, TRUE, Ok(body))
          /\ \A id \in pending \ pending', body \in {AuthBodyA, AuthBodyB} :
                OnAuthenticationResponse(id, TRUE, Ok(body)) =>
                    IsAuthenticated'
          /\ now' # now => IsAuthenticated' = IsAuthenticated]_vars

\* the clock is past the expiry and IsAuthenticated is still true, while
\* an authentication request is in flight
C5_Witness ==
    /\ IsAuthenticated
    /\ now > TokenExpirationTime
    /\ \E id \in pending : issued[id].handler = AuthHandler

(* C6: a GetBalance response received with a success status whose JSON     *)
(* body has no balance field executes the error delegate with the fixed    *)
(* decode-failure message and not the success delegate; likewise for       *)
(* CreateTransaction when transaction_hash is missing.                     *)
C6_MissingFieldIsDecodeFailure ==
    [][\A id \in pending \ pending' :
          /\ OnBalanceResponse(id, TRUE, Ok(UnexpectedBody)) =>
                /\ errors' = Append(errors,
                       [id |-> id,
                        ErrorMessage |-> "Failed to parse balance response"])
                /\ balanceReceived' = balanceReceived
          /\ OnTransactionResponse(id, TRUE, Ok(UnexpectedBody)) =>
                /\ errors' = Append(errors,
                       [id |-> id,
                        ErrorMessage |->
                            "Failed to parse transaction response"])
                /\ transactionCreated' = transactionCreated]_vars

(* C7: for GetBalance and CreateTransaction a transport failure            *)
(* (connection failure or non-success status) delivers to the error        *)
(* delegate the raw response body when there is a response and "Request    *)
(* failed" when there is none; the success delegate is not executed.       *)
C7_TransportFailureMessage ==
    [][\A id \in pending \ pending' :
          \A c \in Completions(issued[id].handler) :
           LET b == c[1]
               r == c[2]
           IN (OnBalanceResponse(id, b, r) \/ OnTransactionResponse(id, b, r))
              /\ Failed(b, r) =>
                  /\ errors' = Append(errors,
                         [id |-> id,
                          ErrorMessage |-> IF r.valid THEN r.content
                                           ELSE "Request failed"])
                  /\ balanceReceived' = balanceReceived
                  /\ transactionCreated' = transactionCreated]_vars

(* C8: every completion of a GetBalance or CreateTransaction request       *)
(* executes exactly one of the call's two delegates, once: a success       *)
(* response with the expected field delivers the field's value to the      *)
(* success delegate, every other completion delivers one message to the    *)
(* error delegate and nothing to the success delegate.                     *)
C8_ExactlyOneCallback ==
    [][\A id \in pending \ pending' :
          \A c \in Completions(issued[id].handler) :
           LET b == c[1]
               r == c[2]
           IN /\ OnBalanceResponse(id, b, r) =>
                    IF ~Failed(b, r) /\ r.content = BalanceBody
                    THEN /\ balanceReceived' = Append(balanceReceived,
                                [id |-> id, Balance |-> 42])
                         /\ errors' = errors
                    ELSE /\ balanceReceived' = balanceReceived
                         /\ Len(errors') = Len(errors) + 1
                         /\ errors'[Len(errors')].id = id
              /\ OnTransactionResponse(id, b, r) =>
                    IF ~Failed(b, r) /\ r.content = TransactionBody
                    THEN /\ transactionCreated' = Append(transactionCreated,
                                [id |-> id, TransactionHash |-> "0xabc"])
                         /\ errors' = errors
                    ELSE /\ transactionCreated' = transactionCreated
                         /\ Len(errors') = Len(errors) + 1
                         /\ errors'[Len(errors')].id = id]_vars

(* C9: no retry.  Each call of GetBalance, CreateTransaction,              *)
(* GetTransaction or GetNetworkStatus issues exactly one domain request;   *)
(* processing a completion issues no request; a call's failure reaches its *)
(* error delegate at most once; delegates are executed only when a         *)
(* response is processed, never inside the initiating call.                *)
C9_NoRetry ==
    [][/\ lastOp' \in DomainOps =>
             Cardinality({i \in NewRequests :
                             issued'[i].handler # AuthHandler}) = 1
       /\ lastOp' \in Handlers => issued' = issued
       /\ \A i, j \in DOMAIN errors' :
             errors'[i].id = errors'[j].id => i = j
       /\ callbacks' # callbacks =>
             lastOp' \in {"OnBalanceResponse", "OnTransactionResponse"}]_vars

\* a GetBalance request failed, its error was reported once, and nothing
\* was issued in its place
C9_Witness ==
    /\ lastOp = "OnBalanceResponse"
    /\ Len(errors) = 1
    /\ balanceReceived = <<>>
    /\ pending = {}
    /\ Cardinality({i \in DOMAIN issued :
                       issued[i].handler = "OnBalanceResponse"}) = 1

(* C10: every request built by the client carries Content-Type:            *)
(* application/json, and carries Authorization: Bearer <token> exactly     *)
(* when the session token is non-empty when the request is built; an       *)
(* empty token does not keep a call from issuing its request.              *)
C10_RequestHeaders ==
    [][/\ \A i \in NewRequests :
             /\ <<"Content-Type", "application/json">> \in issued'[i].headers
             /\ AuthorizationValues(issued'[i]) =
                   IF AuthToken = "" THEN {}
                   ELSE {"Bearer " \o AuthToken}
       /\ lastOp' \in DomainOps \cup {"InitializeSDK"} => NewRequests # {}
      ]_vars

\* a request issued without a token and one issued with the token tokA
C10_Witness ==
    \E i, j \in DOMAIN issued :
        /\ AuthorizationValues(issued[i]) = {}
        /\ AuthorizationValues(issued[j]) = {"Bearer tokA"}
        /\ issued[j].handler # AuthHandler

(* C11: every call of InitializeSDK, whatever the session, stores the      *)
(* given key and URL and issues exactly one authentication request, POST   *)
(* /auth/token on the stored URL with api_key the stored key; the call     *)
(* does not change token or expiry.                                        *)
C11_InitializeSDKAuthenticates ==
    [][lastOp' = "InitializeSDK" =>
          /\ \A k \in ApiKeys, u \in ApiUrls :
                InitializeSDK(k, u) => ApiKey' = k /\ ApiUrl' = u
          /\ ApiKey' \in ApiKeys /\ ApiUrl' \in ApiUrls
          /\ Len(issued') = Len(issued) + 1
          /\ issued'[Len(issued')].handler = AuthHandler
          /\ issued'[Len(issued')].verb = "POST"
          /\ issued'[Len(issued')].url = ApiUrl' \o "/auth/token"
          /\ issued'[Len(issued')].content = [api_key |-> ApiKey']
          /\ Len(issued') \in pending'
          /\ UNCHANGED session]_vars

\* InitializeSDK called while a token outside the renewal window is held
\* issued a second authentication request
C11_Witness ==
    /\ lastOp = "InitializeSDK"
    /\ AuthToken = "tokA"
    /\ now < TokenExpirationTime - 300
    /\ Len(issued) = 2
    /\ issued[2].handler = AuthHandler
    /\ issued[2].url = "http://localhost:5000/api/v1/auth/token"
    /\ issued[2].content = [api_key |-> "key1"]

(* C12: every request issued by CreateTransaction is a POST to             *)
(* /transaction whose body carries the call's from_address, to_address,    *)
(* amount and private_key and the fee 0.01, for every amount and session.  *)
C12_CreateTransactionBody ==
    [][lastOp' = "CreateTransaction" =>
          /\ \A f \in Addresses, t \in Addresses, m \in Amounts,
                p \in PrivateKeys, s \in Bindings, e \in Bindings :
                CreateTransaction(f, t, m, p, s, e) =>
                    /\ issued'[Len(issued')].content.from_address = f
                    /\ issued'[Len(issued')].content.to_address = t
                    /\ issued'[Len(issued')].content.amount = m
                    /\ issued'[Len(issued')].content.private_key = p
          /\ issued'[Len(issued')].verb = "POST"
          /\ issued'[Len(issued')].url = ApiUrl \o "/transaction"
          /\ issued'[Len(issued')].content.fee = <<1, 100>>
          /\ DOMAIN issued'[Len(issued')].content =
                {"from_address", "to_address", "amount", "private_key", "fee"}
          /\ \A i \in NewRequests :
                i # Len(issued') => issued'[i].handler = AuthHandler]_vars

\* a transaction of 25 was sent with the fee 0.01 while no token was held
C12_Witness ==
    /\ lastOp = "CreateTransaction"
    /\ AuthToken = ""
    /\ issued[Len(issued)].content.amount = 25
    /\ issued[Len(issued)].content.fee = <<1, 100>>

(* C13: GetNetworkStatus performs no authentication check: in every        *)
(* session state it issues exactly one request, GET /network/status, and   *)
(* no authentication request; GetTransaction runs EnsureAuthenticated      *)
(* before issuing GET /transaction/{hash}.                                 *)
C13_NetworkStatusUnauthenticated ==
    [][/\ lastOp' = "GetNetworkStatus" =>
             /\ Len(issued') = Len(issued) + 1
             /\ issued'[Len(issued')].verb = "GET"
             /\ issued'[Len(issued')].url = ApiUrl \o "/network/status"
             /\ issued'[Len(issued')].handler # AuthHandler
       /\ lastOp' = "GetTransaction" =>
             /\ issued'[Len(issued')].verb = "GET"
             /\ issued'[Len(issued')].url \in
                   {ApiUrl \o "/transaction/" \o h : h \in TransactionHashes}
             /\ Len(issued') - Len(issued) =
                   IF AuthToken = "" \/ now >= TokenExpirationTime - 300
                   THEN 2 ELSE 1
             /\ \A i \in NewRequests :
                   i # Len(issued') => issued'[i].handler = AuthHandler
      ]_vars

\* GetNetworkStatus called with an expired token issued its request alone
C13_Witness ==
    /\ lastOp = "GetNetworkStatus"
    /\ AuthToken # ""
    /\ now > TokenExpirationTime
    /\ Len(issued) = 2
    /\ issued[2].url = "http://localhost:5000/api/v1/network/status"

\* URLs of the requests of GetTransaction and GetNetworkStatus
UnconsumedUrls ==
    {u \o e : u \in ApiUrls \cup {""},
              e \in {"/network/status"} \cup
                    {"/transaction/" \o h : h \in TransactionHashes}}

\* authentication requests in flight
PendingAuth == {id \in pending : issued[id].handler = AuthHandler}

(* C14: the responses to GetTransaction and GetNetworkStatus requests are  *)
(* unconsumed: the completion of such a request executes no delegate and   *)
(* changes neither token nor expiry.                                       *)
C14_UnconsumedResponses ==
    [][\A id \in pending \ pending' :
          issued[id].verb = "GET" /\ issued[id].url \in UnconsumedUrls =>
              UNCHANGED <<session, callbacks>>]_vars

\* a GetTransaction request was completed while tokA was held: the token
\* is still held and no delegate ran
C14_Witness ==
    /\ lastOp = "UnboundCompletion"
    /\ AuthToken = "tokA"
    /\ callbacks = <<<<>>, <<>>, <<>>>>
    /\ \E id \in DOMAIN issued :
          /\ id \notin pending
          /\ issued[id].url =
                "http://localhost:5000/api/v1/transaction/0xabc"

(* C15: token and expiry are changed only by processing an authentication  *)
(* response, and the stored API key and base URL only by InitializeSDK.    *)
C15_SessionFrame ==
    [][/\ session' # session => lastOp' = "OnAuthenticationResponse"
       /\ config' # config => lastOp' = "InitializeSDK"]_vars

\* a balance response was processed after authentication: session and
\* configuration are those the authentication and InitializeSDK left
C15_Witness ==
    /\ lastOp = "OnBalanceResponse"
    /\ session = <<"tokA", 600>>
    /\ config = <<"http://localhost:5000/api/v1", "key1">>
    /\ now = 300

(* C16: authentication requests are not de-duplicated: an authenticated    *)
(* operation invoked with an empty or expiring token adds one more         *)
(* authentication request to those in flight; each successful response     *)
(* overwrites the session when it is processed, whichever request it       *)
(* answers, and leaves the other authentication requests in flight.        *)
C16_NoDeduplication ==
    [][/\ (/\ lastOp' \in AuthenticatedOps
           /\ (AuthToken = "" \/ now >= TokenExpirationTime - 300)) =>
             Cardinality(PendingAuth') = Cardinality(PendingAuth) + 1
       /\ \A id \in PendingAuth \ PendingAuth' :
             /\ PendingAuth' = PendingAuth \ {id}
             /\ OnAuthenticationResponse(id, TRUE, Ok(AuthBodyA)) =>
                   session' = <<"tokA", now + 600>>
             /\ OnAuthenticationResponse(id, TRUE, Ok(AuthBodyB)) =>
                   session' = <<"tokB", now + 200>>]_vars

\* two authentication requests in flight at once, the second one issued
\* by an authenticated operation
C16_Witness ==
    /\ lastOp \in AuthenticatedOps
    /\ PendingAuth = {1, 2}

(* C17: an authenticated operation invoked with an empty or expiring       *)
(* token issues the authentication request first and its own request in    *)
(* the same call, both in flight after the call; its own request carries   *)
(* the token as it was before the call: no Authorization header if it was  *)
(* empty, the old token otherwise.                                         *)
C17_DependentRequestRaces ==
    [][(/\ lastOp' \in AuthenticatedOps
        /\ (AuthToken = "" \/ now >= TokenExpirationTime - 300)) =>
          /\ Len(issued') = Len(issued) + 2
          /\ issued'[Len(issued) + 1].handler = AuthHandler
          /\ issued'[Len(issued) + 2].handler # AuthHandler
          /\ AuthorizationValues(issued'[Len(issued) + 2]) =
                IF AuthToken = "" THEN {} ELSE {"Bearer " \o AuthToken}
          /\ {Len(issued) + 1, Len(issued) + 2} \subseteq pending'
          /\ UNCHANGED session]_vars

\* GetBalance called with the expired token tokB: the balance request
\* carries tokB and is in flight together with the authentication request
C17_Witness ==
    /\ lastOp = "GetBalance"
    /\ AuthToken = "tokB"
    /\ now > TokenExpirationTime
    /\ Len(issued) = 3
    /\ issued[2].handler = AuthHandler
    /\ AuthorizationValues(issued[3]) = {"Bearer tokB"}
    /\ {2, 3} \subseteq pending

(* C18: in every reachable state either the token is empty and the expiry  *)
(* is 0, or token and expiry are the token field and the processing time   *)
(* plus expires_in of one processed authentication response.               *)
C18_TokenAndExpiryTogether ==
    \/ AuthToken = "" /\ TokenExpirationTime = 0
    \/ AuthToken = "tokA" /\ TokenExpirationTime - 600 \in 0..now
    \/ AuthToken = "tokB" /\ TokenExpirationTime - 200 \in 0..now

---------------------------------------------------------------------------
(* Recovery from a failed authentication.  The scenario of a caller that   *)
(* configures the SDK once at startup and then keeps invoking              *)
(* authenticated operations, against a server whose authentication         *)
(* eventually succeeds with a lifetime above the renewal window: an        *)
(* authentication may fail only while the caller can still invoke an       *)
(* operation that renews it, and from then on it succeeds with the         *)
(* lifetime of 600 seconds.  The HTTP module completes every request.      *)

\* the caller can still invoke an authenticated operation that renews
CanRetry == Len(issued) + 2 <= MaxRequests

AuthenticatedCall ==
    \/ \E a \in Addresses, s \in Bindings, e \in Bindings : GetBalance(a, s, e)
    \/ \E f \in Addresses, t \in Addresses, m \in Amounts, p \in PrivateKeys,
          s \in Bindings, e \in Bindings : CreateTransaction(f, t, m, p, s, e)
    \/ \E h \in TransactionHashes : GetTransaction(h)

RecoveryAuthCompletion ==
    \E id \in pending :
       \E c \in Completions(issued[id].handler) :
          /\ CanRetry \/ c = <<TRUE, [valid |-> TRUE, code |-> 200,
                                     content |-> AuthBodyA]>>
          /\ OnAuthenticationResponse(id, c[1], c[2])

RecoveryNext ==
    \/ \E k \in ApiKeys, u \in ApiUrls :
          Len(issued) = 0 /\ InitializeSDK(k, u)
    \/ AuthenticatedCall
    \/ RecoveryAuthCompletion
    \/ \E id \in pending :
          \E c \in Completions(issued[id].handler) : OnBalanceResponse(id, c[1], c[2])
    \/ \E id \in pending :
          \E c \in Completions(issued[id].handler) : OnTransactionResponse(id, c[1], c[2])
    \/ \E id \in pending : UnboundCompletion(id)
    \/ \E d \in ClockSteps : Tick(d)

RecoverySpec ==
    /\ Init
    /\ [][RecoveryNext]_vars
    /\ WF_vars(AuthenticatedCall)
    /\ WF_vars(RecoveryAuthCompletion)

\* an authentication completed and left the token empty or expiring
AuthenticationFailed ==
    /\ lastOp = "OnAuthenticationResponse"
    /\ (AuthToken = "" \/ now >= TokenExpirationTime - 300)

\* a token outside the renewal window is held
Recovered == AuthToken # "" /\ now < TokenExpirationTime - 300

(* C19: a failed authentication is recovered only by later operations.     *)
(* While the token is empty or expiring every GetBalance,                  *)
(* CreateTransaction or GetTransaction call issues a fresh authentication  *)
(* request; if the caller keeps invoking them and authentication           *)
(* eventually succeeds with a lifetime above 300 seconds, the session      *)
(* eventually holds a token outside the renewal window, and operations     *)
(* invoked then issue no authentication request; a step that is not a      *)
(* call of the SDK issues no request at all.                               *)
C19_RecoveryByLaterOperations ==
    /\ [][/\ lastOp' \in AuthenticatedOps =>
                (\E i \in NewRequests : issued'[i].handler = AuthHandler)
                   = ~Recovered
          /\ lastOp' \notin DomainOps \cup {"InitializeSDK"} =>
                issued' = issued]_vars
    /\ (AuthenticationFailed /\ CanRetry) ~> Recovered

\* the first authentication failed, a later GetBalance issued a fresh one,
\* and its success left a token outside the renewal window
C19_Witness ==
    /\ lastOp = "OnAuthenticationResponse"
    /\ Recovered
    /\ Len(issued) = 3
    /\ issued[1].handler = AuthHandler
    /\ issued[2].handler = AuthHandler
    /\ issued[3].handler = "OnBalanceResponse"
    /\ {1, 2} \cap pending = {}

====
